---- MODULE Spec2Model ----
(***************************************************************************)
(* Model of the Discord MCP API (src/main.py): process start-up, the       *)
(* inline DiscordAPI client and the /mcp JSON-RPC handler handle_mcp.      *)
(*                                                                         *)
(* JSON / Python values are tagged records [t, v]: t is the Python type,   *)
(* v the value written as a string.  A dict is a record over the keys the  *)
(* code reads, with Absent marking a key the dict does not carry.          *)
(* Portuguese log and error texts are written without diacritics.          *)
(***************************************************************************)
EXTENDS Integers, Sequences, FiniteSets, TLC

VARIABLES DISCORD_TOKEN, DEFAULT_DISCORD_CHANNEL_ID, phase, log, discord_api,
          request, calls, http_requests, result, exc, response,
          rest_http, rest_result, rest_response, openapi_schema

vars == <<DISCORD_TOKEN, DEFAULT_DISCORD_CHANNEL_ID, phase, log, discord_api,
          request, calls, http_requests, result, exc, response,
          rest_http, rest_result, rest_response, openapi_schema>>

-----------------------------------------------------------------------------
(* Bounds *)

\* longest message list the upstream backend returns
MaxMsgs == 2

\* longest channel list the upstream backend returns
MaxChannels == 2

-----------------------------------------------------------------------------
(* Python values *)

None == [t |-> "NoneType", v |-> "None"]
Absent == [t |-> "absent", v |-> ""]
Str(s) == [t |-> "str", v |-> s]
Num(n) == [t |-> "int", v |-> n]
False == [t |-> "bool", v |-> "False"]
True == [t |-> "bool", v |-> "True"]

\* str(x) as used by the f-strings; None formats as "None"
PyStr(x) == x.v

\* variant of Truthy that tests "is not None" instead of truthiness
Truthy_IsNotNone(x) == x.t # "NoneType"

\* bool(x): None, "", 0 and False are falsy
Truthy(x) ==
    ~(\/ x.t = "NoneType"
      \/ (x.t = "str" /\ x.v = "")
      \/ (x.t = "int" /\ x.v = "0")
      \/ x = False)

\* d.get(key, default) for the value found under a key
Get(x, default) == IF x = Absent THEN default ELSE x

\* variant of PyOr that prefers the second operand when it is set
PyOr_SecondFirst(a, b) == IF Truthy(b) THEN b ELSE a

\* a or b
PyOr(a, b) == IF Truthy(a) THEN a ELSE b

-----------------------------------------------------------------------------
(* HTTP statuses and JSON-RPC error codes *)

HTTP_OK == 200
HTTP_INTERNAL_ERROR == 500
CODE_DOMAIN == -32000
CODE_NOT_FOUND == -32601
CODE_INTERNAL == -32603

-----------------------------------------------------------------------------
(* Process start-up (module import) *)

Tokens == {None, Str(""), Str("tok12345")}
DefaultChannels == {None, Str(""), Str("999")}

NoApi == [constructed |-> FALSE, token |-> None, api_base |-> "", Authorization |-> ""]

\* token[:5] raises TypeError when token is None
Subscriptable(token) == token.t = "str"

\* DiscordAPI.__init__
DiscordAPI(token) ==
    IF Subscriptable(token)
    THEN [raised |-> FALSE,
          api |-> [constructed |-> TRUE, token |-> token,
                   api_base |-> "https://discord.com/api/v10",
                   Authorization |-> "Bot " \o PyStr(token)],
          log |-> {"DiscordAPI inicializado com token"}]
    ELSE [raised |-> TRUE, api |-> NoApi, log |-> {}]

-----------------------------------------------------------------------------
(* Upstream payloads: what the Discord REST backend may answer *)

Authors ==
    { [t |-> "absent", id |-> Absent, username |-> Absent, bot |-> Absent],
      [t |-> "NoneType", id |-> Absent, username |-> Absent, bot |-> Absent],
      [t |-> "dict", id |-> Str("u1"), username |-> Str("ana"), bot |-> True],
      [t |-> "dict", id |-> Absent, username |-> Str("bob"), bot |-> Absent] }

AuthorOf(kind) == CHOOSE a \in Authors : a.t = kind /\ (kind = "dict" => a.id = Str("u1"))

\* a dict carrying none of the keys the code reads
EmptyObj ==
    [t |-> "dict", id |-> Absent, content |-> Absent, timestamp |-> Absent,
     embeds |-> Absent, pinned |-> Absent, author |-> AuthorOf("absent")]

\* a list element that is not a JSON object
NonObject == [EmptyObj EXCEPT !.t = "str"]

MessageObjects ==
    { [t |-> "dict", id |-> Str("m1"), content |-> Str("hello"), timestamp |-> Str("t1"),
       embeds |-> Str("[]"), pinned |-> False, author |-> a] :
        a \in {x \in Authors : x.t # "absent"} }
    \cup
    { [t |-> "dict", id |-> Str("m2"), content |-> Str(""), timestamp |-> Absent,
       embeds |-> Absent, pinned |-> True, author |-> AuthorOf("dict")],
      [t |-> "dict", id |-> Absent, content |-> Str("bye"), timestamp |-> Str("t3"),
       embeds |-> Absent, pinned |-> Absent, author |-> AuthorOf("absent")] }

\* the elements of an upstream message list; one of them has a null author
Elements == MessageObjects

SeqsUpTo(S, n) == UNION { [1..k -> S] : k \in 0..n }

\* response.json() of a 2xx answer; "invalid" is a body that is not JSON
Payloads ==
    { [t |-> "invalid", error |-> Absent, obj |-> EmptyObj, items |-> <<>>],
      [t |-> "NoneType", error |-> Absent, obj |-> EmptyObj, items |-> <<>>],
      [t |-> "dict", error |-> Absent, obj |-> EmptyObj, items |-> <<>>] }
    \cup { [t |-> "dict", error |-> Absent, obj |-> m, items |-> <<>>] :
             m \in {x \in MessageObjects : x.id = Str("m2")} }
    \cup { [t |-> "list", error |-> Absent, obj |-> EmptyObj, items |-> l] :
             l \in SeqsUpTo(Elements, MaxMsgs) }

NoPayload == [t |-> "none", error |-> Absent, obj |-> EmptyObj, items |-> <<>>]

\* what requests.post / requests.get and raise_for_status can do
Outcomes ==
    { [t |-> "exc", ok |-> FALSE, err |-> e, payload |-> NoPayload] :
        e \in {"Connection refused"} }
    \cup { [t |-> "http", ok |-> FALSE, err |-> e, payload |-> NoPayload] :
             e \in {"401 Client Error: Unauthorized", "429 Client Error: Too Many Requests"} }
    \cup { [t |-> "http", ok |-> TRUE, err |-> "", payload |-> p] : p \in Payloads }

-----------------------------------------------------------------------------
(* DiscordAPI: the upstream client *)

\* {"error": str(e)}
ErrorValue(s) == [t |-> "dict", error |-> Str(s), obj |-> EmptyObj, items |-> <<>>]

\* variant of send_message that posts a second time when the first POST fails
send_message_Retry(api, channel_id, content, outcome) ==
    LET post == [verb |-> "POST",
                 url |-> api.api_base \o "/channels/" \o PyStr(channel_id) \o "/messages",
                 Authorization |-> api.Authorization,
                 json |-> content]
    IN [http |-> IF outcome.t = "exc" \/ ~outcome.ok THEN <<post, post>> ELSE <<post>>,
        result |-> IF outcome.t = "exc" \/ ~outcome.ok THEN ErrorValue(outcome.err)
                   ELSE IF outcome.payload.t = "invalid" THEN ErrorValue("Expecting value")
                   ELSE outcome.payload]

\* DiscordAPI.send_message: one POST; every exception becomes an error value
send_message(api, channel_id, content, outcome) ==
    [http |-> << [verb |-> "POST",
                  url |-> api.api_base \o "/channels/" \o PyStr(channel_id) \o "/messages",
                  Authorization |-> api.Authorization,
                  json |-> content] >>,
     result |-> IF outcome.t = "exc" \/ ~outcome.ok THEN ErrorValue(outcome.err)
                ELSE IF outcome.payload.t = "invalid" THEN ErrorValue("Expecting value")
                ELSE outcome.payload]

\* DiscordAPI.get_channel_messages: one GET; len(response.json()) is inside the try
get_channel_messages(api, channel_id, limit, outcome) ==
    [http |-> << [verb |-> "GET",
                  url |-> api.api_base \o "/channels/" \o PyStr(channel_id)
                          \o "/messages?limit=" \o PyStr(limit),
                  Authorization |-> api.Authorization,
                  json |-> Absent] >>,
     result |-> IF outcome.t = "exc" \/ ~outcome.ok THEN ErrorValue(outcome.err)
                ELSE IF outcome.payload.t = "invalid" THEN ErrorValue("Expecting value")
                ELSE IF outcome.payload.t = "NoneType"
                     THEN ErrorValue("object of type 'NoneType' has no len()")
                ELSE outcome.payload]

\* the channel objects of a guild; parent_id is null for a top-level channel
ChannelObjects ==
    { [t |-> "dict", id |-> Str("c1"), name |-> Str("general"), type |-> Num("0"),
       parent_id |-> None, position |-> Num("1")],
      [t |-> "dict", id |-> Str("c2"), name |-> Str("voice"), type |-> Num("2"),
       parent_id |-> Str("c9"), position |-> Absent],
      [t |-> "dict", id |-> Absent, name |-> Absent, type |-> Absent,
       parent_id |-> Absent, position |-> Absent] }

ChannelElements ==
    ChannelObjects
    \cup { [t |-> "str", id |-> Absent, name |-> Absent, type |-> Absent,
            parent_id |-> Absent, position |-> Absent] }

\* response.json() of a 2xx answer to the list-channels request
ChannelPayloads ==
    { [t |-> k, error |-> Absent, obj |-> EmptyObj, items |-> <<>>] :
        k \in {"invalid", "NoneType", "dict"} }
    \cup { [t |-> "list", error |-> Absent, obj |-> EmptyObj, items |-> l] :
             l \in SeqsUpTo(ChannelElements, MaxChannels) }

ChannelOutcomes ==
    { o \in Outcomes : ~o.ok }
    \cup { [t |-> "http", ok |-> TRUE, err |-> "", payload |-> p] : p \in ChannelPayloads }

\* DiscordAPI.get_guild_channels: one GET; len(response.json()) is inside the try
get_guild_channels(api, guild_id, outcome) ==
    [http |-> << [verb |-> "GET",
                  url |-> api.api_base \o "/guilds/" \o PyStr(guild_id) \o "/channels",
                  Authorization |-> api.Authorization,
                  json |-> Absent] >>,
     result |-> IF outcome.t = "exc" \/ ~outcome.ok THEN ErrorValue(outcome.err)
                ELSE IF outcome.payload.t = "invalid" THEN ErrorValue("Expecting value")
                ELSE IF outcome.payload.t = "NoneType"
                     THEN ErrorValue("object of type 'NoneType' has no len()")
                ELSE outcome.payload]

-----------------------------------------------------------------------------
(* Requests: the JSON bodies posted to /mcp *)

Ids == {Absent, Num("7"), Str("req-1")}
Methods == {Absent, Str("initialize"), Str("invoke"), Str("shutdown")}
ToolNames == {Absent, Str("send_message"), Str("get_messages"), Str("delete_everything")}

NoArguments == [t |-> "absent", channel_id |-> Absent, content |-> Absent, limit |-> Absent]

Arguments ==
    { NoArguments, [NoArguments EXCEPT !.t = "NoneType"] }
    \cup [t : {"dict"}, channel_id : {Absent, Str(""), Str("123")},
          content : {Absent, Str("hi")}, limit : {Absent, Num("2")}]

NoParams == [t |-> "absent", method |-> Absent, arguments |-> NoArguments]

Params ==
    { NoParams, [NoParams EXCEPT !.t = "NoneType"] }
    \cup [t : {"dict"}, method : ToolNames, arguments : Arguments]

\* wf "invalid": the body is not JSON; wf "list": JSON, but not an object
Bodies ==
    { [wf |-> w, method |-> Absent, id |-> Absent, params |-> NoParams] :
        w \in {"invalid", "list"} }
    \cup [wf : {"dict"}, method : Methods, id : Ids, params : Params]

NoRequest == [wf |-> "none", method |-> Absent, id |-> Absent, params |-> NoParams]
NoResult == [t |-> "none", error |-> Absent, obj |-> EmptyObj, items |-> <<>>]
NoExc == ""
NoResponse == [status |-> 0, body |-> [jsonrpc |-> ""]]

-----------------------------------------------------------------------------
(* handle_mcp *)

\* a returned dict: FastAPI answers it with HTTP 200
ErrorResponse(request_id, code, message) ==
    [status |-> HTTP_OK,
     body |-> [jsonrpc |-> "2.0", id |-> request_id,
               error |-> [code |-> code, message |-> message]]]

ResultResponse(request_id, res) ==
    [status |-> HTTP_OK, body |-> [jsonrpc |-> "2.0", id |-> request_id, result |-> res]]

\* the except branch: JSONResponse(status_code=500, ...)
InternalErrorResponse(e) ==
    [status |-> HTTP_INTERNAL_ERROR,
     body |-> [jsonrpc |-> "2.0", id |-> Str("unknown"),
               error |-> [code |-> CODE_INTERNAL, message |-> Str("Erro interno: " \o e)]]]

\* outcome of the try block: a returned response or a raised exception
Return(resp, cs, hs, res) ==
    [raised |-> FALSE, exc |-> NoExc, response |-> resp, calls |-> cs, http |-> hs, result |-> res]

Raise(e, cs, hs, res) ==
    [raised |-> TRUE, exc |-> e, response |-> NoResponse, calls |-> cs, http |-> hs, result |-> res]

\* x.get(...) on something that is not a dict
AttributeError(t) == "'" \o t \o "' object has no attribute 'get'"

\* variant of capabilities that also advertises a get_channels tool
capabilities_WithGetChannels ==
    [tools |->
       [send_message |->
          [description |-> "Envia uma mensagem para um canal do Discord",
           parameters |->
             [type |-> "object",
              properties |->
                [channel_id |-> [type |-> "string",
                                 description |-> "ID do canal do Discord (opcional se canal padrao configurado)"],
                 content |-> [type |-> "string", description |-> "Conteudo da mensagem"]],
              required |-> <<"content">>]],
        get_messages |->
          [description |-> "Obtem mensagens recentes de um canal do Discord",
           parameters |->
             [type |-> "object",
              properties |->
                [channel_id |-> [type |-> "string", description |-> "ID do canal do Discord"],
                 limit |-> [type |-> "integer",
                            description |-> "Numero maximo de mensagens (padrao: 10)"]],
              required |-> <<"channel_id">>]],
        get_channels |->
          [description |-> "Obtem os canais de um servidor do Discord",
           parameters |->
             [type |-> "object",
              properties |->
                [guild_id |-> [type |-> "string", description |-> "ID do servidor do Discord"]],
              required |-> <<"guild_id">>]]]]

capabilities ==
    [tools |->
       [send_message |->
          [description |-> "Envia uma mensagem para um canal do Discord",
           parameters |->
             [type |-> "object",
              properties |->
                [channel_id |-> [type |-> "string",
                                 description |-> "ID do canal do Discord (opcional se canal padrao configurado)"],
                 content |-> [type |-> "string", description |-> "Conteudo da mensagem"]],
              required |-> <<"content">>]],
        get_messages |->
          [description |-> "Obtem mensagens recentes de um canal do Discord",
           parameters |->
             [type |-> "object",
              properties |->
                [channel_id |-> [type |-> "string", description |-> "ID do canal do Discord"],
                 limit |-> [type |-> "integer",
                            description |-> "Numero maximo de mensagens (padrao: 10)"]],
              required |-> <<"channel_id">>]]]]

serverInfo == [name |-> "Discord MCP API", version |-> "1.0.0"]

\* variant of Simplify that invents a username when upstream carries none
Simplify_DefaultUsername(msg) ==
    [id |-> Get(msg.id, None),
     content |-> Get(msg.content, None),
     author |-> [username |-> Get(msg.author.username, Str("unknown")),
                 bot |-> Get(msg.author.bot, False)],
     timestamp |-> Get(msg.timestamp, None)]

\* variant of Simplify that forwards the upstream embeds and pinned fields
Simplify_Forwarding(msg) ==
    [id |-> Get(msg.id, None),
     content |-> Get(msg.content, None),
     author |-> [username |-> Get(msg.author.username, None),
                 bot |-> Get(msg.author.bot, False)],
     timestamp |-> Get(msg.timestamp, None),
     embeds |-> Get(msg.embeds, None),
     pinned |-> Get(msg.pinned, None)]

\* the dict appended for one upstream message
Simplify(msg) ==
    [id |-> Get(msg.id, None),
     content |-> Get(msg.content, None),
     author |-> [username |-> Get(msg.author.username, None),
                 bot |-> Get(msg.author.bot, False)],
     timestamp |-> Get(msg.timestamp, None)]

\* for msg in result: simplified_messages.append({...}); stops at the first exception
RECURSIVE SimplifyLoop(_, _, _)
SimplifyLoop(items, i, simplified_messages) ==
    IF i > Len(items) THEN [raised |-> FALSE, exc |-> NoExc, messages |-> simplified_messages]
    ELSE IF items[i].t # "dict"
         THEN [raised |-> TRUE, exc |-> AttributeError(items[i].t), messages |-> <<>>]
    ELSE IF items[i].author.t \notin {"dict", "absent"}
         THEN [raised |-> TRUE, exc |-> AttributeError(items[i].author.t), messages |-> <<>>]
    ELSE SimplifyLoop(items, i + 1, Append(simplified_messages, Simplify(items[i])))

\* the keys a dict carries
KeysOf(res) ==
    LET names == <<"id", "content", "timestamp", "embeds", "pinned">>
        here == SelectSeq(names, LAMBDA k : res.obj[k] # Absent)
        with_author == IF res.obj.author.t = "absent" THEN here ELSE Append(here, "author")
    IN IF res.error = Absent THEN with_author ELSE Append(with_author, "error")

\* what "for msg in result" iterates over: the items of a list, the keys of a dict
Iterated(res) ==
    IF res.t = "list" THEN res.items
    ELSE [i \in 1..Len(KeysOf(res)) |-> NonObject]

\* "error" in result
ErrorIn(res) == res.t = "dict" /\ res.error # Absent


\* return of the "if not channel_id" branch
ChannelMissing(request_id) ==
    ErrorResponse(request_id, CODE_DOMAIN,
                  Str("Canal nao especificado e canal padrao nao configurado"))

\* variant of UpstreamError that answers a fixed text instead of the upstream one
UpstreamError_FixedText(request_id, res) ==
    ErrorResponse(request_id, CODE_DOMAIN, Str("Erro ao enviar mensagem"))

\* return of the "error" in result branches
UpstreamError(request_id, res) == ErrorResponse(request_id, CODE_DOMAIN, res.error)

\* variant of UnknownTool that reports the tool as a domain failure
UnknownTool_DomainCode(request_id, tool_method) ==
    ErrorResponse(request_id, CODE_DOMAIN,
                  Str("Metodo nao encontrado: " \o PyStr(tool_method)))

\* return of the unknown tool branch
UnknownTool(request_id, tool_method) ==
    ErrorResponse(request_id, CODE_NOT_FOUND,
                  Str("Metodo nao encontrado: " \o PyStr(tool_method)))

\* variant of UnknownMethod that does not echo the request id
UnknownMethod_NoEcho(request_id, method) ==
    ErrorResponse(Str("unknown"), CODE_NOT_FOUND,
                  Str("Metodo MCP nao encontrado: " \o PyStr(method)))

\* return of the unknown method branch
UnknownMethod(request_id, method) ==
    ErrorResponse(request_id, CODE_NOT_FOUND,
                  Str("Metodo MCP nao encontrado: " \o PyStr(method)))

-----------------------------------------------------------------------------
(* GET /openapi.json and /.well-known/openapi.json *)

NoSchema == [servers |-> <<>>]

\* RENDER_EXTERNAL_URL, or the local default
ServerUrls == {"http://localhost:10000", "https://discord-mcp.onrender.com"}

\* openapi_schema["info"]["x-mcp-capabilities"]
x_mcp_capabilities ==
    [tools |->
       [send_message |->
          [description |-> "Envia uma mensagem para um canal do Discord",
           parameters |->
             [type |-> "object",
              properties |->
                [channel_id |-> [type |-> "string",
                                 description |-> "ID do canal do Discord (opcional se canal padrao configurado)"],
                 content |-> [type |-> "string", description |-> "Conteudo da mensagem"]],
              required |-> <<"content">>]],
        get_messages |->
          [description |-> "Obtem mensagens recentes de um canal do Discord",
           parameters |->
             [type |-> "object",
              properties |->
                [channel_id |-> [type |-> "string", description |-> "ID do canal do Discord"],
                 limit |-> [type |-> "integer",
                            description |-> "Numero maximo de mensagens (padrao: 10)"]],
              required |-> <<"channel_id">>]]]]

\* get_custom_openapi: the schema is built on the first call and cached in app.openapi_schema
get_custom_openapi(cached, server_url) ==
    IF cached # NoSchema THEN cached
    ELSE [servers |-> << [url |-> server_url, description |-> "API Discord"] >>,
          info |-> [title |-> "Discord MCP API", version |-> "1.0.0",
                    x_mcp_capabilities |-> x_mcp_capabilities]]

-----------------------------------------------------------------------------
(* POST /get-channels *)

GuildIds == {Str("g1"), Str("g2")}

NoRestResponse == [status |-> 0, body |-> [success |-> FALSE]]

\* a returned dict serialized through response_model=GenericResponse
GenericResponse(success, error, data) ==
    [status |-> HTTP_OK,
     body |-> [success |-> success, message |-> None, error |-> error, data |-> data]]

\* the dict appended for one upstream channel
SimplifyChannel(channel) ==
    [id |-> Get(channel.id, None),
     name |-> Get(channel.name, None),
     type |-> Get(channel.type, None),
     parent_id |-> Get(channel.parent_id, None)]

\* for channel in result: simplified_channels.append({...}); stops at the first exception
RECURSIVE SimplifyChannelsLoop(_, _, _)
SimplifyChannelsLoop(items, i, simplified_channels) ==
    IF i > Len(items) THEN [raised |-> FALSE, exc |-> NoExc, channels |-> simplified_channels]
    ELSE IF items[i].t # "dict"
         THEN [raised |-> TRUE, exc |-> AttributeError(items[i].t), channels |-> <<>>]
    ELSE SimplifyChannelsLoop(items, i + 1,
                              Append(simplified_channels, SimplifyChannel(items[i])))

\* the endpoint get_channels: every exception becomes {"success": False, "error": str(e)}
get_channels(api, guild_id, outcome) ==
    LET call == get_guild_channels(api, guild_id, outcome)
        loop == SimplifyChannelsLoop(Iterated(call.result), 1, <<>>)
    IN [http |-> call.http,
        result |-> call.result,
        response |->
           IF ErrorIn(call.result)
           THEN GenericResponse(FALSE, call.result.error, None)
           ELSE IF loop.raised
           THEN GenericResponse(FALSE, Str(loop.exc), None)
           ELSE GenericResponse(TRUE, None,
                                [channels |-> loop.channels, count |-> Len(loop.channels)])]

-----------------------------------------------------------------------------
(* handle_mcp: the tool branches *)

\* the branch tool_method == "send_message"
InvokeSendMessage(api, default_channel, request_id, arguments, outcome) ==
    IF arguments.t \notin {"dict", "absent"}
    THEN Raise(AttributeError(arguments.t), <<>>, <<>>, NoResult)
    ELSE
    LET channel_id == PyOr(Get(arguments.channel_id, None), default_channel)
        content == Get(arguments.content, None)
        call == send_message(api, channel_id, content, outcome)
        cs == << [op |-> "send_message", channel_id |-> channel_id,
                  content |-> content, limit |-> Absent] >>
    IN IF ~Truthy(channel_id)
       THEN Return(ChannelMissing(request_id), <<>>, <<>>, NoResult)
       ELSE IF call.result.t \notin {"dict", "list"}
       THEN Raise("argument of type '" \o call.result.t \o "' is not iterable",
                  cs, call.http, call.result)
       ELSE IF ErrorIn(call.result)
       THEN Return(UpstreamError(request_id, call.result), cs, call.http, call.result)
       ELSE Return(ResultResponse(request_id,
                       [success |-> TRUE, message |-> Str("Mensagem enviada com sucesso")]),
                   cs, call.http, call.result)

\* the branch tool_method == "get_messages"
InvokeGetMessages(api, request_id, arguments, outcome) ==
    IF arguments.t \notin {"dict", "absent"}
    THEN Raise(AttributeError(arguments.t), <<>>, <<>>, NoResult)
    ELSE
    LET channel_id == Get(arguments.channel_id, None)
        limit == Get(arguments.limit, Num("10"))
        call == get_channel_messages(api, channel_id, limit, outcome)
        cs == << [op |-> "get_channel_messages", channel_id |-> channel_id,
                  content |-> Absent, limit |-> limit] >>
        loop == SimplifyLoop(Iterated(call.result), 1, <<>>)
    IN IF ErrorIn(call.result)
       THEN Return(UpstreamError(request_id, call.result), cs, call.http, call.result)
       ELSE IF call.result.t \notin {"dict", "list"}
       THEN Raise("'" \o call.result.t \o "' object is not iterable",
                  cs, call.http, call.result)
       ELSE IF loop.raised
       THEN Raise(loop.exc, cs, call.http, call.result)
       ELSE Return(ResultResponse(request_id, [success |-> TRUE, messages |-> loop.messages]),
                   cs, call.http, call.result)

\* the branch method == "invoke"
Invoke(api, default_channel, request_id, params, outcome) ==
    IF params.t \notin {"dict", "absent"}
    THEN Raise(AttributeError(params.t), <<>>, <<>>, NoResult)
    ELSE
    LET tool_method == Get(params.method, None)
        arguments == params.arguments
    IN IF tool_method = Str("send_message")
       THEN InvokeSendMessage(api, default_channel, request_id, arguments, outcome)
       ELSE IF tool_method = Str("get_messages")
       THEN InvokeGetMessages(api, request_id, arguments, outcome)
       ELSE Return(UnknownTool(request_id, tool_method), <<>>, <<>>, NoResult)

\* variant of Initialize that advertises only the first tool
Initialize_OneTool(request_id) ==
    Return(ResultResponse(request_id,
               [serverInfo |-> serverInfo,
                capabilities |-> [tools |-> [send_message |-> capabilities.tools.send_message]]]),
           <<>>, <<>>, NoResult)

\* the branch method == "initialize"
Initialize(request_id) ==
    Return(ResultResponse(request_id, [serverInfo |-> serverInfo, capabilities |-> capabilities]),
           <<>>, <<>>, NoResult)

\* the try block of handle_mcp
TryHandle(body, api, default_channel, outcome) ==
    IF body.wf = "invalid"
    THEN Raise("Expecting value", <<>>, <<>>, NoResult)
    ELSE IF body.wf # "dict"
    THEN Raise(AttributeError(body.wf), <<>>, <<>>, NoResult)
    ELSE
    LET method == Get(body.method, None)
        params == body.params
        request_id == Get(body.id, Str("unknown"))
    IN IF method = Str("invoke")
       THEN Invoke(api, default_channel, request_id, params, outcome)
       ELSE IF method = Str("initialize")
       THEN Initialize(request_id)
       ELSE Return(UnknownMethod(request_id, method), <<>>, <<>>, NoResult)

\* variant of handle_mcp whose except clause misses AttributeError
handle_mcp_NarrowExcept(body, api, default_channel, outcome) ==
    LET try == TryHandle(body, api, default_channel, outcome)
    IN IF try.raised /\ try.exc \notin {AttributeError(t) : t \in {"NoneType", "str", "list"}}
       THEN [try EXCEPT !.response = InternalErrorResponse(try.exc)]
       ELSE try

\* except Exception as e: every exception of the try block becomes the 500 answer
handle_mcp(body, api, default_channel, outcome) ==
    LET try == TryHandle(body, api, default_channel, outcome)
    IN IF try.raised
       THEN [try EXCEPT !.response = InternalErrorResponse(try.exc)]
       ELSE try

Init ==
    /\ DISCORD_TOKEN \in Tokens
    /\ DEFAULT_DISCORD_CHANNEL_ID \in DefaultChannels
    /\ phase = "boot"
    /\ log = {}
    /\ discord_api = NoApi
    /\ request = NoRequest
    /\ calls = <<>>
    /\ http_requests = <<>>
    /\ result = NoResult
    /\ exc = NoExc
    /\ response = NoResponse
    /\ rest_http = <<>>
    /\ rest_result = NoResult
    /\ rest_response = NoRestResponse
    /\ openapi_schema = NoSchema

\* module body of main.py: token check, DiscordAPI construction, app creation
Startup ==
    /\ phase = "boot"
    /\ LET checked == IF ~Truthy(DISCORD_TOKEN)
                      THEN {"DISCORD_TOKEN nao encontrado nas variaveis de ambiente!"}
                      ELSE {}
           made == DiscordAPI(DISCORD_TOKEN)
       IN /\ log' = checked \cup made.log
          /\ discord_api' = made.api
          /\ phase' = IF made.raised THEN "crashed" ELSE "serving"
    /\ UNCHANGED <<DISCORD_TOKEN, DEFAULT_DISCORD_CHANNEL_ID, request, calls,
                   http_requests, result, exc, response,
                   rest_http, rest_result, rest_response, openapi_schema>>

\* the HTTP runtime delivers one POST /mcp
Receive(body) ==
    /\ phase = "serving"
    /\ request = NoRequest
    /\ rest_response = NoRestResponse
    /\ request' = body
    /\ UNCHANGED <<DISCORD_TOKEN, DEFAULT_DISCORD_CHANNEL_ID, phase, log, discord_api,
                   calls, http_requests, result, exc, response,
                   rest_http, rest_result, rest_response, openapi_schema>>

\* handle_mcp runs on the delivered request; outcome is what the network does
\* with the outbound request, when one is made
HandleMcp(outcome) ==
    /\ phase = "serving"
    /\ request # NoRequest
    /\ response = NoResponse
    /\ LET h == handle_mcp(request, discord_api, DEFAULT_DISCORD_CHANNEL_ID, outcome)
       IN /\ response' = h.response
          /\ calls' = h.calls
          /\ http_requests' = h.http
          /\ result' = h.result
          /\ exc' = h.exc
    /\ UNCHANGED <<DISCORD_TOKEN, DEFAULT_DISCORD_CHANNEL_ID, phase, log, discord_api, request,
                   rest_http, rest_result, rest_response, openapi_schema>>

\* the response is sent; nothing of the request is kept
Reply ==
    /\ response # NoResponse
    /\ request' = NoRequest
    /\ calls' = <<>>
    /\ http_requests' = <<>>
    /\ result' = NoResult
    /\ exc' = NoExc
    /\ response' = NoResponse
    /\ UNCHANGED <<DISCORD_TOKEN, DEFAULT_DISCORD_CHANNEL_ID, phase, log, discord_api,
                   rest_http, rest_result, rest_response, openapi_schema>>

\* get_channels runs on one POST /get-channels
GetChannels(guild_id, outcome) ==
    /\ phase = "serving"
    /\ request = NoRequest
    /\ rest_response = NoRestResponse
    /\ LET h == get_channels(discord_api, guild_id, outcome)
       IN /\ rest_http' = h.http
          /\ rest_result' = h.result
          /\ rest_response' = h.response
    /\ UNCHANGED <<DISCORD_TOKEN, DEFAULT_DISCORD_CHANNEL_ID, phase, log, discord_api,
                   request, calls, http_requests, result, exc, response, openapi_schema>>

\* the /get-channels response is sent; nothing of the request is kept
ReplyChannels ==
    /\ rest_response # NoRestResponse
    /\ rest_http' = <<>>
    /\ rest_result' = NoResult
    /\ rest_response' = NoRestResponse
    /\ UNCHANGED <<DISCORD_TOKEN, DEFAULT_DISCORD_CHANNEL_ID, phase, log, discord_api,
                   request, calls, http_requests, result, exc, response, openapi_schema>>

\* mcp_openapi / app.openapi: one GET of the OpenAPI document
GetOpenapi(server_url) ==
    /\ phase = "serving"
    /\ request = NoRequest
    /\ rest_response = NoRestResponse
    /\ openapi_schema' = get_custom_openapi(openapi_schema, server_url)
    /\ UNCHANGED <<DISCORD_TOKEN, DEFAULT_DISCORD_CHANNEL_ID, phase, log, discord_api,
                   request, calls, http_requests, result, exc, response,
                   rest_http, rest_result, rest_response>>

\* no outbound request was sent, so the network has nothing to answer
NoOutcome == [t |-> "none", ok |-> FALSE, err |-> "", payload |-> NoPayload]

\* the network outcomes of the pending request: those of its outbound request, if it sends one
PendingOutcomes ==
    IF handle_mcp(request, discord_api, DEFAULT_DISCORD_CHANNEL_ID, NoOutcome).http # <<>>
    THEN Outcomes
    ELSE {NoOutcome}

Next ==
    \/ Startup
    \/ \E body \in Bodies : Receive(body)
    \/ \E outcome \in PendingOutcomes : HandleMcp(outcome)
    \/ Reply
    \/ \E guild_id \in GuildIds, outcome \in ChannelOutcomes : GetChannels(guild_id, outcome)
    \/ ReplyChannels
    \/ \E server_url \in ServerUrls : GetOpenapi(server_url)

Spec == Init /\ [][Next]_vars

-----------------------------------------------------------------------------
(* Properties *)

Responded == response # NoResponse
IsEnvelope == request.wf = "dict"
TopMethod == Get(request.method, None)
ToolMethod == Get(request.params.method, None)
KnownTools == {Str("send_message"), Str("get_messages")}
IsInvoke == IsEnvelope /\ TopMethod = Str("invoke") /\ request.params.t \in {"dict", "absent"}
IsErrorBody == "error" \in DOMAIN response.body
IsResultBody == "result" \in DOMAIN response.body
ErrorCode == IF IsErrorBody THEN response.body.error.code ELSE 0
NoUpstream == calls = <<>> /\ http_requests = <<>>
HasMapping(x) == x.t \in {"dict", "absent"}

\* C1: every response to an invoke request that names a known tool carries the
\* id of the request, or "unknown" when the request carries none, whatever the
\* upstream client returned.
C1_IdEchoed ==
    (Responded /\ IsInvoke /\ ToolMethod \in KnownTools)
        => response.body.id = (IF request.id = Absent THEN Str("unknown") ELSE request.id)

\* C2: an initialize request makes no upstream client call and its result is
\* serverInfo plus the catalog of exactly send_message and get_messages.
C2_InitializeStatic ==
    (Responded /\ IsEnvelope /\ TopMethod = Str("initialize"))
        => /\ NoUpstream
           /\ IsResultBody
           /\ response.body.result.serverInfo = [name |-> "Discord MCP API", version |-> "1.0.0"]
           /\ DOMAIN response.body.result.capabilities.tools = {"send_message", "get_messages"}
           /\ \A tool \in {"send_message", "get_messages"} :
                 DOMAIN response.body.result.capabilities.tools[tool]
                     = {"description", "parameters"}

C2_Witness ==
    /\ Responded /\ IsEnvelope /\ TopMethod = Str("initialize")
    /\ request.params.t = "dict" /\ request.params.method = Str("send_message")
    /\ request.params.arguments.channel_id = Str("123")

\* C3: send_message without a channel_id (absent or empty) and without a
\* configured default channel answers error -32000 and calls nothing upstream.
C3_ChannelMissing ==
    (/\ Responded /\ IsInvoke /\ ToolMethod = Str("send_message")
     /\ HasMapping(request.params.arguments)
     /\ request.params.arguments.channel_id \in {Absent, Str("")}
     /\ DEFAULT_DISCORD_CHANNEL_ID \in {None, Str("")})
        => /\ IsErrorBody /\ ErrorCode = -32000
           /\ ~IsResultBody
           /\ NoUpstream

C3_Witness ==
    /\ Responded /\ IsInvoke /\ ToolMethod = Str("send_message")
    /\ request.params.arguments.t = "dict"
    /\ request.params.arguments.channel_id = Str("")
    /\ request.params.arguments.content = Str("hi")
    /\ DEFAULT_DISCORD_CHANNEL_ID = None
    /\ ErrorCode = -32000

\* C4: when the upstream client returned the error value {error: s} the
\* response is the error -32000 with message exactly s and no result field.
C4_UpstreamErrorMapped ==
    (Responded /\ Len(calls) = 1 /\ result.t = "dict" /\ result.error # Absent)
        => /\ IsErrorBody /\ ErrorCode = -32000
           /\ response.body.error.message = result.error
           /\ ~IsResultBody

C4_Witness ==
    /\ Responded /\ Len(calls) = 1 /\ calls[1].op = "get_channel_messages"
    /\ result.t = "dict" /\ result.error = Str("429 Client Error: Too Many Requests")
    /\ ErrorCode = -32000

\* a raw upstream message object: a JSON object whose author, when present, is an object
IsMessageObject(m) == m.t = "dict" /\ m.author.t \in {"dict", "absent"}

\* C5: a list of n upstream message objects yields n simplified messages in
\* the same order, each carrying the upstream id, content, timestamp and
\* author username/bot and no field outside the SimplifiedMessage subset.
C5_MessagesSimplified ==
    (/\ Responded /\ Len(calls) = 1 /\ calls[1].op = "get_channel_messages"
     /\ result.t = "list"
     /\ \A i \in 1..Len(result.items) : IsMessageObject(result.items[i]))
        => /\ IsResultBody
           /\ response.body.result.success = TRUE
           /\ Len(response.body.result.messages) = Len(result.items)
           /\ \A i \in 1..Len(result.items) :
                 LET m == result.items[i]
                     out == response.body.result.messages[i]
                 IN /\ DOMAIN out = {"id", "content", "author", "timestamp"}
                    /\ DOMAIN out.author \subseteq {"id", "username", "bot"}
                    /\ \A f \in {"id", "content", "timestamp"} :
                          out[f] = (IF m[f] = Absent THEN None ELSE m[f])
                    /\ out.author.username
                          = (IF m.author.username = Absent THEN None ELSE m.author.username)
                    /\ out.author.bot = (IF m.author.bot = Absent THEN False ELSE m.author.bot)

C5_Witness ==
    /\ Responded /\ Len(calls) = 1 /\ calls[1].op = "get_channel_messages"
    /\ result.t = "list" /\ Len(result.items) = 2
    /\ result.items[1].id = Str("m1") /\ result.items[1].embeds # Absent
    /\ result.items[1].author.t = "dict"
    /\ result.items[2].id = Str("m2") /\ result.items[2].pinned # Absent
    /\ IsResultBody
    /\ Len(response.body.result.messages) = 2
    /\ response.body.result.messages[1].id = Str("m1")
    /\ response.body.result.messages[2].id = Str("m2")

\* C6: an invoke request whose params.method is no catalog entry, or is
\* missing, answers error -32601 naming the tool and calls nothing upstream.
C6_UnknownTool ==
    (Responded /\ IsInvoke /\ ToolMethod \notin KnownTools)
        => /\ IsErrorBody /\ ErrorCode = -32601
           /\ ~IsResultBody
           /\ response.body.error.message
                 = Str("Metodo nao encontrado: "
                       \o (IF request.params.method = Absent THEN "None"
                           ELSE request.params.method.v))
           /\ NoUpstream

C6_Witness ==
    /\ Responded /\ IsInvoke /\ ErrorCode = -32601
    /\ \/ request.params.method = Str("delete_everything")
       \/ request.params.t = "dict" /\ request.params.method = Absent

\* C7: a request whose top-level method is neither initialize nor invoke, or
\* is missing, answers error -32601 naming the method, echoes the request id
\* and calls nothing upstream.
C7_UnknownMethod ==
    (Responded /\ IsEnvelope /\ TopMethod \notin {Str("initialize"), Str("invoke")})
        => /\ IsErrorBody /\ ErrorCode = -32601
           /\ ~IsResultBody
           /\ response.body.error.message
                 = Str("Metodo MCP nao encontrado: "
                       \o (IF request.method = Absent THEN "None" ELSE request.method.v))
           /\ response.body.id = (IF request.id = Absent THEN Str("unknown") ELSE request.id)
           /\ NoUpstream

C7_Witness ==
    /\ Responded /\ IsEnvelope /\ request.method = Str("shutdown")
    /\ request.id = Num("7") /\ response.body.id = Num("7")
    /\ ErrorCode = -32601

\* C8: handling one request makes at most one upstream client call and the
\* client issues exactly one HTTP request per call, also when the call fails.
C8_AtMostOneUpstreamCall ==
    /\ Len(calls) <= 1
    /\ Len(http_requests) = Len(calls)

C8_Witness ==
    /\ Responded /\ Len(calls) = 1 /\ calls[1].op = "send_message"
    /\ Len(http_requests) = 1
    /\ result.error = Str("Connection refused")
    /\ ErrorCode = -32000

\* C9: the HTTP status is 500 exactly for the -32603 response, the -32000 and
\* -32601 responses have status 200, and every exception raised while
\* handling yields the 500 / -32603 response.
C9_StatusMapping ==
    /\ Responded =>
          /\ response.status \in {200, 500}
          /\ (response.status = 500) <=> (IsErrorBody /\ ErrorCode = -32603)
          /\ (IsErrorBody /\ ErrorCode \in {-32000, -32601}) => response.status = 200
    /\ (exc # NoExc) => (Responded /\ response.status = 500 /\ ErrorCode = -32603)

C9_Witness ==
    /\ exc = AttributeError("NoneType")
    /\ Responded /\ response.status = 500 /\ ErrorCode = -32603
    /\ IsEnvelope

\* C10: with the bot credential absent from the environment, start-up logs
\* the absence, constructs the upstream client and goes on to serve requests.
C10_StartsWithoutToken ==
    (phase # "boot" /\ DISCORD_TOKEN = None)
        => /\ phase = "serving"
           /\ "DISCORD_TOKEN nao encontrado nas variaveis de ambiente!" \in log
           /\ discord_api.constructed

\* the simplified messages of a get_messages result, paired with their upstream messages
MessagesReturned ==
    /\ Responded /\ Len(calls) = 1 /\ calls[1].op = "get_channel_messages"
    /\ result.t = "list" /\ IsResultBody

\* the simplified channels of a /get-channels result
ChannelsReturned ==
    /\ rest_response # NoRestResponse /\ rest_response.body.success
    /\ rest_result.t = "list"

\* a simplified field holds the upstream value, or null when upstream has none
Carried(out, up) == (out # None => up = out) /\ (up = Absent => out = None)

ChannelsCarried ==
    ChannelsReturned =>
        /\ Len(rest_response.body.data.channels) = Len(rest_result.items)
        /\ \A i \in 1..Len(rest_result.items) :
              LET c == rest_result.items[i]
                  out == rest_response.body.data.channels[i]
              IN /\ DOMAIN out = {"id", "name", "type", "parent_id"}
                 /\ \A f \in DOMAIN out : Carried(out[f], c[f])

\* C11 as stated: every simplified field that has a value is the upstream
\* field with that value, and a field missing upstream, author and author.bot
\* included, is empty in the simplified form.
C11_NoFabrication ==
    /\ MessagesReturned =>
          \A i \in 1..Len(result.items) :
             LET m == result.items[i]
                 out == response.body.result.messages[i]
             IN /\ \A f \in {"id", "content", "timestamp"} : Carried(out[f], m[f])
                /\ Carried(out.author.username, m.author.username)
                /\ Carried(out.author.bot, m.author.bot)
    /\ ChannelsCarried

\* C11 amended: as above, except that author.bot is false when upstream
\* carries no author.bot, and author is always an object.
C11_NoFabricationExceptBot ==
    /\ MessagesReturned =>
          \A i \in 1..Len(result.items) :
             LET m == result.items[i]
                 out == response.body.result.messages[i]
             IN /\ \A f \in {"id", "content", "timestamp"} : Carried(out[f], m[f])
                /\ Carried(out.author.username, m.author.username)
                /\ DOMAIN out.author = {"username", "bot"}
                /\ out.author.bot = (IF m.author.bot = Absent THEN False ELSE m.author.bot)
    /\ ChannelsCarried

C11_Witness ==
    /\ MessagesReturned /\ Len(result.items) = 2
    /\ result.items[1].author.t = "absent" /\ result.items[1].id = Absent
    /\ response.body.result.messages[1].id = None
    /\ response.body.result.messages[1].author.username = None
    /\ response.body.result.messages[1].author.bot = False
    /\ result.items[2].author.username = Str("bob")
    /\ response.body.result.messages[2].author.username = Str("bob")

\* C12: send_message calls the client with arguments.channel_id when that is
\* non-empty, with the configured default only when it is absent or empty,
\* and not at all when neither is set; get_messages calls the client with
\* exactly arguments.channel_id (None when absent), never with the default.
C12_ChannelResolution ==
    LET explicit == request.params.arguments.channel_id
        given == explicit \notin {Absent, Str("")}
        configured == DEFAULT_DISCORD_CHANNEL_ID \notin {None, Str("")}
    IN /\ (/\ Responded /\ IsInvoke /\ ToolMethod = Str("send_message")
           /\ HasMapping(request.params.arguments))
             => IF given
                THEN /\ Len(calls) = 1 /\ calls[1].op = "send_message"
                     /\ calls[1].channel_id = explicit
                ELSE IF configured
                THEN /\ Len(calls) = 1 /\ calls[1].op = "send_message"
                     /\ calls[1].channel_id = DEFAULT_DISCORD_CHANNEL_ID
                ELSE calls = <<>>
       /\ (/\ Responded /\ IsInvoke /\ ToolMethod = Str("get_messages")
           /\ HasMapping(request.params.arguments))
             => /\ Len(calls) = 1 /\ calls[1].op = "get_channel_messages"
                /\ calls[1].channel_id = (IF explicit = Absent THEN None ELSE explicit)
                /\ (~given /\ configured) => calls[1].channel_id # DEFAULT_DISCORD_CHANNEL_ID

C12_Witness ==
    /\ Responded /\ IsInvoke /\ ToolMethod = Str("get_messages")
    /\ request.params.arguments.t = "dict"
    /\ request.params.arguments.channel_id = Absent
    /\ DEFAULT_DISCORD_CHANNEL_ID = Str("999")
    /\ Len(calls) = 1 /\ calls[1].channel_id = None
    /\ http_requests[1].url = "https://discord.com/api/v10/channels/None/messages?limit=10"

\* an invoke naming the tool is handled by a tool branch, not answered -32601
Routed(name) ==
    \A outcome \in {o \in Outcomes : ~o.ok} :
       LET body == [wf |-> "dict", method |-> Str("invoke"), id |-> Absent,
                    params |-> [t |-> "dict", method |-> Str(name),
                                arguments |-> NoArguments]]
           h == handle_mcp(body, discord_api, DEFAULT_DISCORD_CHANNEL_ID, outcome)
       IN ~("error" \in DOMAIN h.response.body /\ h.response.body.error.code = -32601)

TestedNames == {"send_message", "get_messages", "get_channels", "delete_everything"}

\* C13: a tool name is in the catalog returned by initialize, and in the
\* x-mcp-capabilities of the OpenAPI document, exactly when an invoke naming
\* it is routed to a tool branch instead of being answered -32601.
C13_CatalogMatchesDispatch ==
    /\ (Responded /\ IsEnvelope /\ TopMethod = Str("initialize"))
          => \A name \in TestedNames \cup DOMAIN response.body.result.capabilities.tools :
                (name \in DOMAIN response.body.result.capabilities.tools) <=> Routed(name)
    /\ (openapi_schema # NoSchema)
          => \A name \in TestedNames \cup DOMAIN openapi_schema.info.x_mcp_capabilities.tools :
                (name \in DOMAIN openapi_schema.info.x_mcp_capabilities.tools) <=> Routed(name)
    /\ (Responded /\ IsInvoke /\ ToolMethod.t = "str" /\ openapi_schema # NoSchema)
          => ((ErrorCode # -32601)
                <=> ToolMethod.v \in DOMAIN openapi_schema.info.x_mcp_capabilities.tools)

C13_Witness ==
    /\ openapi_schema # NoSchema
    /\ Responded /\ IsInvoke /\ ToolMethod = Str("delete_everything")
    /\ ErrorCode = -32601
    /\ "delete_everything" \notin DOMAIN openapi_schema.info.x_mcp_capabilities.tools
    /\ "get_messages" \in DOMAIN openapi_schema.info.x_mcp_capabilities.tools
====
